---- MODULE Spec2Model ----
(***************************************************************************)
(* Model of the Canvas Accessibility Auditor content script (content.js):  *)
(* the three detectors, the colour helpers, the report panel with its      *)
(* lifecycle (re-scan, close button, Escape listener) and the highlighter  *)
(* with its restoration timers.                                            *)
(*                                                                         *)
(* Representation.  A JavaScript string that the code inspects character   *)
(* by character (attribute values, text content, colour strings, tag       *)
(* names) is a sequence of one-character strings.  A channel value v/255   *)
(* is kept as its numerator v; a linearised channel and a luminance are    *)
(* fixed-point integers (see LinScale).  The document is a sequence of     *)
(* element records in document order, node 1 being the root element        *)
(* (document.documentElement) and node 2 the body.                         *)
(***************************************************************************)
EXTENDS Integers, Sequences, FiniteSets, TLC

VARIABLES
    doc,          \* the page: Seq of element records, in document order
    style,        \* style[i]: the inline style (outline, backgroundColor) of element i
    panels,       \* the #a11y-panel elements in the document, in document order
    styleEls,     \* the #a11y-panel-styles elements in the document (scan ids)
    listeners,    \* the handleEsc keydown listeners registered on document (scan ids)
    timers,       \* pending highlight restoration timers, oldest first
    scanCount,    \* number of engine invocations so far
    lastEvent,    \* the event the host dispatched last, with what it invoked
    popup         \* the extension popup: button, status line, handler position

vars == <<doc, style, panels, styleEls, listeners, timers, scanCount, lastEvent, popup>>

----------------------------------------------------------------------------
(* Bounds of the model *)

MaxImgs == 2
MaxHeadings == 3
MaxScans == 3
MaxTimers == 2

----------------------------------------------------------------------------
(* Strings as character sequences *)

Digits == <<"0", "1", "2", "3", "4", "5", "6", "7", "8", "9">>

IsDigit(c) == \E k \in 1..10 : Digits[k] = c

DigitValue(c) == (CHOOSE k \in 1..10 : Digits[k] = c) - 1

DigitChar(n) == Digits[n + 1]

IsSpace(c) == c \in {" ", "\t", "\n"}

RECURSIVE TrimStart(_)
TrimStart(s) ==
    IF s # <<>> /\ IsSpace(Head(s)) THEN TrimStart(Tail(s)) ELSE s

RECURSIVE TrimEnd(_)
TrimEnd(s) ==
    IF s # <<>> /\ IsSpace(s[Len(s)])
    THEN TrimEnd(SubSeq(s, 1, Len(s) - 1))
    ELSE s

\* String.prototype.trim
Trim(s) == TrimEnd(TrimStart(s))

RECURSIVE Dec(_)
Dec(n) == IF n < 10 THEN <<DigitChar(n)>>
          ELSE Dec(n \div 10) \o <<DigitChar(n % 10)>>

\* The serialisation of a computed colour: "rgb(r, g, b)"
Rgb(r, g, b) ==
    <<"r", "g", "b", "(">> \o Dec(r) \o <<",", " ">> \o Dec(g)
        \o <<",", " ">> \o Dec(b) \o <<")">>

\* "rgba(r, g, b, 0)" and "rgba(r, g, b, 0.d)"
Rgba0(r, g, b) ==
    <<"r", "g", "b", "a", "(">> \o Dec(r) \o <<",", " ">> \o Dec(g)
        \o <<",", " ">> \o Dec(b) \o <<",", " ", "0", ")">>

RgbaTenths(r, g, b, d) ==
    <<"r", "g", "b", "a", "(">> \o Dec(r) \o <<",", " ">> \o Dec(g)
        \o <<",", " ">> \o Dec(b) \o <<",", " ", "0", ".">> \o Dec(d) \o <<")">>

White == Rgb(255, 255, 255)
Black == Rgb(0, 0, 0)
Transparent == Rgba0(0, 0, 0)
TransparentKeyword == <<"t", "r", "a", "n", "s", "p", "a", "r", "e", "n", "t">>
HighlightBg == RgbaTenths(255, 0, 0, 1)
HighlightOutline == "3px solid red"

----------------------------------------------------------------------------
(* ColorModel: parseRgb and getLuminance *)

\* the regular expression /rgba?\(\s*(\d+)\s*,\s*(\d+)\s*,\s*(\d+)/
RECURSIVE SkipSpaces(_, _)
SkipSpaces(s, j) ==
    IF j <= Len(s) /\ IsSpace(s[j]) THEN SkipSpaces(s, j + 1) ELSE j

RECURSIVE DigitsEnd(_, _)
DigitsEnd(s, j) ==
    IF j <= Len(s) /\ IsDigit(s[j]) THEN DigitsEnd(s, j + 1) ELSE j

\* parseInt of the decimal digits s[from .. to-1]
RECURSIVE ParseInt(_)
ParseInt(ds) ==
    IF ds = <<>> THEN 0
    ELSE 10 * ParseInt(SubSeq(ds, 1, Len(ds) - 1)) + DigitValue(ds[Len(ds)])

CharAt(s, j) == IF j >= 1 /\ j <= Len(s) THEN s[j] ELSE ""

\* The match of the expression anchored at position i: the three captured
\* digit strings, or <<>> when it does not match there.
MatchAt(s, i) ==
    IF ~(CharAt(s, i) = "r" /\ CharAt(s, i + 1) = "g" /\ CharAt(s, i + 2) = "b")
    THEN <<>>
    ELSE
    LET p0 == IF CharAt(s, i + 3) = "a" THEN i + 4 ELSE i + 3
        a1 == SkipSpaces(s, p0 + 1)
        e1 == DigitsEnd(s, a1)
        c1 == SkipSpaces(s, e1)
        a2 == SkipSpaces(s, c1 + 1)
        e2 == DigitsEnd(s, a2)
        c2 == SkipSpaces(s, e2)
        a3 == SkipSpaces(s, c2 + 1)
        e3 == DigitsEnd(s, a3)
    IN  IF /\ CharAt(s, p0) = "("
           /\ e1 > a1 /\ CharAt(s, c1) = ","
           /\ e2 > a2 /\ CharAt(s, c2) = ","
           /\ e3 > a3
        THEN <<SubSeq(s, a1, e1 - 1), SubSeq(s, a2, e2 - 1), SubSeq(s, a3, e3 - 1)>>
        ELSE <<>>

\* colorStr.match(...): the leftmost match, or <<>> (null)
RegexMatch(s) ==
    LET hits == {i \in 1..Len(s) : MatchAt(s, i) # <<>>}
    IN  IF hits = {} THEN <<>>
        ELSE MatchAt(s, CHOOSE i \in hits : \A k \in hits : i <= k)

parseRgbDefaultBlack(colorStr) ==
    LET match == RegexMatch(colorStr)
    IN  IF match = <<>> THEN <<0, 0, 0>>
        ELSE <<ParseInt(match[1]), ParseInt(match[2]), ParseInt(match[3])>>

\* parseRgb: the channels as numerators over 255 ([1, 1, 1] is 255/255 each)
parseRgb(colorStr) ==
    LET match == RegexMatch(colorStr)
    IN  IF match = <<>> THEN <<255, 255, 255>>
        ELSE <<ParseInt(match[1]), ParseInt(match[2]), ParseInt(match[3])>>

\* Fixed point: a linearised channel x in [0,1] is the integer round(x * LinScale)
LinScale == 100000

\* Math.pow((v/255 + 0.055) / 1.055, 2.4), tabulated for the channel values of
\* the colours the model draws from, rounded to LinScale
PowChannel(v) ==
    CASE v = 128 -> 21586
      [] v = 188 -> 50289
      [] v = 200 -> 57758
      [] v = 219 -> 70838
      [] v = 240 -> 87137
      [] v = 249 -> 94731
      [] v = 253 -> 98225
      [] v = 255 -> 100000

\* the sRGB transfer function of getLuminance: val <= 0.03928 with val = v/255
\* is v * 100000 <= 3928 * 255, and val / 12.92 is v / (255 * 12.92)
Linearize(v) ==
    IF v * 100000 <= 3928 * 255
    THEN (v * LinScale * 100) \div (255 * 1292)
    ELSE PowChannel(v)

\* getLuminance, in units of 1 / (10000 * LinScale)
getLuminance(colorStr) ==
    LET rgb == parseRgb(colorStr)
    IN  2126 * Linearize(rgb[1]) + 7152 * Linearize(rgb[2]) + 722 * Linearize(rgb[3])

\* the thresholds 0.7 and 0.9 of checkContrast, in tenths
TextLumTenths == 7
BgLumTenths == 9

LumTenth == 1000 * LinScale

----------------------------------------------------------------------------
(* The document *)

Root == 1   \* document.documentElement
Body == 2   \* document.body
Null == 0   \* null element reference

NoAttr == [has |-> FALSE, value |-> <<>>]
Attr(v) == [has |-> TRUE, value |-> v]

\* An element record.  color and cssBg are the computed text and background
\* colour the stylesheets give; the inline style is the variable style.
Element(tag, parent, alt, src, display, position, text, color, cssBg) ==
    [tag |-> tag, parent |-> parent, alt |-> alt, src |-> src,
     display |-> display, position |-> position, text |-> text,
     color |-> color, cssBg |-> cssBg, inline |-> [outline |-> "", backgroundColor |-> <<>>],
     attached |-> TRUE]

HtmlElement == Element("html", Null, NoAttr, <<>>, "block", "static", <<>>, Black, Transparent)
BodyElement(bg) == Element("body", Root, NoAttr, <<>>, "block", "static", <<>>, Black, bg)
Img(alt, src) == Element("img", Body, alt, src, "inline", "static", <<>>, Black, Transparent)
Heading(level) ==
    Element(<<"h1", "h2", "h3", "h4", "h5", "h6">>[level], Body, NoAttr, <<>>,
            "block", "static", <<"T">>, Black, Transparent)

NoStyle == [outline |-> "", backgroundColor |-> <<>>]

\* the element with a style attribute as authored by the page
WithInline(e, s) == [e EXCEPT !.inline = s]

\* element.tagName
TagName(tag) ==
    CASE tag = "h1" -> <<"H", "1">>
      [] tag = "h2" -> <<"H", "2">>
      [] tag = "h3" -> <<"H", "3">>
      [] tag = "h4" -> <<"H", "4">>
      [] tag = "h5" -> <<"H", "5">>
      [] tag = "h6" -> <<"H", "6">>
      [] tag = "img" -> <<"I", "M", "G">>
      [] tag = "p" -> <<"P">>
      [] tag = "div" -> <<"D", "I", "V">>
      [] tag = "span" -> <<"S", "P", "A", "N">>
      [] tag = "body" -> <<"B", "O", "D", "Y">>
      [] tag = "html" -> <<"H", "T", "M", "L">>

\* document.querySelectorAll with a list of type selectors: the matching
\* elements in document order
querySelectorAll(d, tags) ==
    SelectSeq([i \in 1..Len(d) |-> i], LAMBDA i : d[i].attached /\ d[i].tag \in tags)

\* An element generates a layout box unless it or an ancestor has display: none
RECURSIVE HasLayoutBox(_, _)
HasLayoutBox(d, i) ==
    IF i = Null THEN TRUE
    ELSE d[i].display # "none" /\ HasLayoutBox(d, d[i].parent)

\* el.offsetParent === null (CSSOM View): the element has no layout box, is
\* the root or the body element, or is position: fixed
OffsetParentIsNull(d, i) ==
    \/ ~HasLayoutBox(d, i)
    \/ i \in {Root, Body}
    \/ d[i].position = "fixed"

\* window.getComputedStyle(el).backgroundColor: the inline declaration wins
ComputedBackground(d, st, i) ==
    IF st[i].backgroundColor # <<>> THEN st[i].backgroundColor ELSE d[i].cssBg

----------------------------------------------------------------------------
(* SCAN 1: checkAltText *)

NoSrc == <<"(", "n", "o", " ", "s", "r", "c", ")">>

AltIssue(d, img) ==
    [element |-> img, src |-> IF d[img].src # <<>> THEN d[img].src ELSE NoSrc]

AltIsMissingUntrimmed(altValue) == ~altValue.has \/ altValue.value = <<>>

\* if (altValue === null || altValue.trim() === "")
AltIsMissing(altValue) == ~altValue.has \/ Trim(altValue.value) = <<>>

RECURSIVE AltLoop(_, _, _, _)
AltLoop(d, images, i, results) ==
    IF i > Len(images) THEN results
    ELSE LET img == images[i]
             altValue == d[img].alt
         IN  AltLoop(d, images, i + 1,
                     IF AltIsMissing(altValue)
                     THEN Append(results, AltIssue(d, img))
                     ELSE results)

checkAltText(d) == AltLoop(d, querySelectorAll(d, {"img"}), 1, <<>>)

----------------------------------------------------------------------------
(* SCAN 2: checkHeadings *)

HeadingTags == {"h1", "h2", "h3", "h4", "h5", "h6"}

HeadingIssue(d, h, lastLevel) ==
    [element |-> h, current |-> TagName(d[h].tag),
     previous |-> <<"H">> \o Dec(lastLevel)]

IsSkipOffByOne(lastLevel, level) == lastLevel # 0 /\ level > lastLevel

\* if (lastLevel !== 0 && level > lastLevel + 1)
IsSkip(lastLevel, level) == lastLevel # 0 /\ level > lastLevel + 1

RECURSIVE HeadingLoop(_, _, _, _, _)
HeadingLoop(d, headings, i, lastLevel, results) ==
    IF i > Len(headings) THEN results
    ELSE LET level == ParseInt(<<CharAt(TagName(d[headings[i]].tag), 2)>>)
         IN  HeadingLoop(d, headings, i + 1, level,
                         IF IsSkip(lastLevel, level)
                         THEN Append(results, HeadingIssue(d, headings[i], lastLevel))
                         ELSE results)

checkHeadings(d) == HeadingLoop(d, querySelectorAll(d, HeadingTags), 1, 0, <<>>)

----------------------------------------------------------------------------
(* SCAN 3: checkContrast, with getBackgroundColor *)

ContrastTags == {"p", "span", "a", "li", "td", "th", "label", "div"} \cup HeadingTags

IsOpaqueString(bg) == bg # <<>> /\ bg # Transparent /\ bg # TransparentKeyword

RECURSIVE getBackgroundColor(_, _, _)
getBackgroundColor(d, st, current) ==
    IF current # Null /\ current # Root
    THEN LET bg == ComputedBackground(d, st, current)
         IN  IF IsOpaqueString(bg) THEN bg
             ELSE getBackgroundColor(d, st, d[current].parent)
    ELSE White

IsSkipped(d, el) == OffsetParentIsNull(d, el) \/ Trim(d[el].text) = <<>>

IsLowContrast(textLuminance, bgLuminance) ==
    /\ textLuminance > TextLumTenths * LumTenth
    /\ bgLuminance > BgLumTenths * LumTenth

RECURSIVE ContrastLoop(_, _, _, _, _)
ContrastLoop(d, st, elements, i, results) ==
    IF i > Len(elements) THEN results
    ELSE LET el == elements[i]
             textColor == d[el].color
             bgColor == getBackgroundColor(d, st, el)
         IN  ContrastLoop(d, st, elements, i + 1,
                 IF ~IsSkipped(d, el)
                    /\ IsLowContrast(getLuminance(textColor), getLuminance(bgColor))
                 THEN Append(results, [element |-> el, color |-> textColor, bg |-> bgColor])
                 ELSE results)

checkContrast(d, st) == ContrastLoop(d, st, querySelectorAll(d, ContrastTags), 1, <<>>)

----------------------------------------------------------------------------
(* highlightElement *)

HighlightDelay == 2000

\* The synchronous part: capture the old inline styles, apply the red
\* highlight, arm the restoration timer.  All timers have the same delay, so
\* they fire in the order they were armed.
highlightElement(el, st, tm) ==
    [style  |-> [st EXCEPT ![el] = [outline |-> HighlightOutline,
                                    backgroundColor |-> HighlightBg]],
     timers |-> Append(tm, [el |-> el, oldOutline |-> st[el].outline,
                            oldBg |-> st[el].backgroundColor,
                            delay |-> HighlightDelay])]

\* The timer callback
RestoreStyle(t, st) ==
    [st EXCEPT ![t.el] = [outline |-> t.oldOutline, backgroundColor |-> t.oldBg]]

RestoreCallbackRequery(t, d, st) ==
    IF d[t.el].attached
    THEN [style |-> RestoreStyle(t, st), threw |-> FALSE]
    ELSE [style |-> st, threw |-> TRUE]

\* The timer callback run by the host: it writes through the element
\* reference it closed over, whether or not the element is still in the
\* document, and cannot throw
RestoreCallback(t, d, st) == [style |-> RestoreStyle(t, st), threw |-> FALSE]

----------------------------------------------------------------------------
(* The report panel *)

CaptureLastElement(issues, k) == issues[Len(issues)].element

\* the element the handlers of entry k close over
CaptureElement(issues, k) == issues[k].element

createSection(title, issues) ==
    [title   |-> title,
     issues  |-> issues,
     pass    |-> Len(issues) = 0,
     count   |-> Len(issues),
     passMsg |-> Len(issues) = 0,
     entries |-> IF Len(issues) = 0 THEN <<>>
                 ELSE [k \in 1..Len(issues) |-> [issueElement |-> CaptureElement(issues, k)]],
     advice  |-> Len(issues) # 0]

BuildPanelShortTotal(id, altIssues, headingIssues, contrastIssues) ==
    [id          |-> id,
     totalIssues |-> Len(altIssues) + Len(headingIssues),
     sections    |-> <<createSection("Missing Alt Text", altIssues),
                       createSection("Heading Hierarchy", headingIssues),
                       createSection("Contrast Warnings", contrastIssues)>>]

\* totalIssues and the three createSection calls
BuildPanel(id, altIssues, headingIssues, contrastIssues) ==
    [id          |-> id,
     totalIssues |-> Len(altIssues) + Len(headingIssues) + Len(contrastIssues),
     sections    |-> <<createSection("Missing Alt Text", altIssues),
                       createSection("Heading Hierarchy", headingIssues),
                       createSection("Contrast Warnings", contrastIssues)>>]

KeepOldPanel(ps) == ps

\* if (oldPanel) oldPanel.remove(): getElementById finds the first one
RemoveOldPanel(ps) == IF ps # <<>> THEN Tail(ps) ELSE ps

KeepOldStyle(ss) == ss

\* if (oldStyle) oldStyle.remove()
RemoveOldStyle(ss) == IF ss # <<>> THEN Tail(ss) ELSE ss

\* document.addEventListener("keydown", handleEsc): each invocation creates
\* its own handleEsc, identified here by the scan's number
AddEscListener(ls, id) == Append(ls, id)

RemoveListener(ls, id) == SelectSeq(ls, LAMBDA x : x # id)

\* panel.remove() in the close button's click handler
CloseClick(ps, ls, j) ==
    [panels    |-> SubSeq(ps, 1, j - 1) \o SubSeq(ps, j + 1, Len(ps)),
     listeners |-> ls]

handleEscLegacyKey(key, id, s) ==
    IF key = "Esc"
    THEN IF s.panels # <<>>
         THEN [panels |-> Tail(s.panels), listeners |-> RemoveListener(s.listeners, id)]
         ELSE s
    ELSE s

\* handleEsc of scan id, run on a keydown with the given key
handleEsc(key, id, s) ==
    IF key = "Escape"
    THEN IF s.panels # <<>>
         THEN [panels |-> Tail(s.panels), listeners |-> RemoveListener(s.listeners, id)]
         ELSE s
    ELSE s

\* The keydown listeners of document run in registration order, over the
\* list as it was when the dispatch began.
RECURSIVE DispatchKeydown(_, _, _)
DispatchKeydown(snapshot, key, s) ==
    IF snapshot = <<>> THEN s
    ELSE DispatchKeydown(Tail(snapshot), key, handleEsc(key, Head(snapshot), s))

\* the keydown listener of an entry
IsActivationKey(key) == key = "Enter" \/ key = " "

Event(type, key, entry, highlighted) ==
    [type |-> type, key |-> key, entry |-> entry, highlighted |-> highlighted,
     mounted |-> Len(panels), target |-> Null, threw |-> FALSE]

NoEntry == <<0, 0>>

----------------------------------------------------------------------------
(* Operations *)

\* One invocation of the engine (the whole IIFE runs synchronously)
Scan ==
    /\ scanCount < MaxScans
    /\ LET id == scanCount + 1
           altIssues == checkAltText(doc)
           headingIssues == checkHeadings(doc)
           contrastIssues == checkContrast(doc, style)
       IN  /\ panels' = Append(RemoveOldPanel(panels),
                               BuildPanel(id, altIssues, headingIssues, contrastIssues))
           /\ styleEls' = Append(RemoveOldStyle(styleEls), id)
           /\ listeners' = AddEscListener(listeners, id)
           /\ scanCount' = id
    /\ lastEvent' = Event("scan", "", NoEntry, <<>>)
    /\ UNCHANGED <<doc, style, timers>>

\* A click on the close button of a mounted panel
ClickClose ==
    \E j \in 1..Len(panels) :
        LET r == CloseClick(panels, listeners, j)
        IN  /\ panels' = r.panels
            /\ listeners' = r.listeners
            /\ lastEvent' = Event("close", "", NoEntry, <<>>)
            /\ UNCHANGED <<doc, style, styleEls, timers, scanCount>>

\* A click on entry k of section c of a mounted panel
ClickEntry ==
    \E j \in 1..Len(panels) : \E c \in 1..3 :
      \E k \in 1..Len(panels[j].sections[c].entries) :
        LET el == panels[j].sections[c].entries[k].issueElement
            r == highlightElement(el, style, timers)
        IN  /\ Len(timers) < MaxTimers
            /\ style' = r.style
            /\ timers' = r.timers
            /\ lastEvent' = Event("click", "", <<c, k>>, <<el>>)
            /\ UNCHANGED <<doc, panels, styleEls, listeners, scanCount>>

Keys == {"Escape", "Enter", " ", "a"}

\* A key pressed while an entry has focus: the entry's own keydown listener
\* runs, then the event bubbles to the listeners of document
KeyDownOnEntry ==
    \E key \in Keys : \E j \in 1..Len(panels) : \E c \in 1..3 :
      \E k \in 1..Len(panels[j].sections[c].entries) :
        LET el == panels[j].sections[c].entries[k].issueElement
            hit == IsActivationKey(key)
            r == highlightElement(el, style, timers)
            s == DispatchKeydown(listeners, key, [panels |-> panels, listeners |-> listeners])
        IN  /\ hit => Len(timers) < MaxTimers
            /\ style' = IF hit THEN r.style ELSE style
            /\ timers' = IF hit THEN r.timers ELSE timers
            /\ panels' = s.panels
            /\ listeners' = s.listeners
            /\ lastEvent' = Event("keydown", key, <<c, k>>, IF hit THEN <<el>> ELSE <<>>)
            /\ UNCHANGED <<doc, styleEls, scanCount>>

\* A key pressed while the focus is elsewhere in the document
KeyDownOnDocument ==
    \E key \in Keys :
        LET s == DispatchKeydown(listeners, key, [panels |-> panels, listeners |-> listeners])
        IN  /\ panels' = s.panels
            /\ listeners' = s.listeners
            /\ lastEvent' = Event("keydown", key, NoEntry, <<>>)
            /\ UNCHANGED <<doc, style, styleEls, timers, scanCount>>

\* The oldest restoration timer fires
TimerFire ==
    /\ timers # <<>>
    /\ LET r == RestoreCallback(Head(timers), doc, style)
       IN  /\ style' = r.style
           /\ lastEvent' = [Event("timeout", "", NoEntry, <<>>)
                               EXCEPT !.target = Head(timers).el, !.threw = r.threw]
    /\ timers' = Tail(timers)
    /\ UNCHANGED <<doc, panels, styleEls, listeners, scanCount>>

----------------------------------------------------------------------------
(* popup.js: the click handler of the scan button *)

RunAuditLabel == "Run Audit"
ScanningLabel == "Scanning..."
NoTabMessage == "Couldn't find the active tab"
RestrictedMessage == "Can't scan chrome:// pages, try a regular website"
SuccessText == <<"Done! Check the page for the audit report.">>
NoStatus == <<>>

\* "Error: " + err.message
ErrorText(message) == <<"Error: ", message>>

NoTab == [exists |-> FALSE, id |-> 0, url |-> NoAttr]
Tab(id, url) == [exists |-> TRUE, id |-> id, url |-> url]

\* the popup as loaded: button enabled and carrying the label the handler
\* restores, empty status, no handler running
PopupIdle ==
    [pc |-> "idle", disabled |-> FALSE, label |-> RunAuditLabel,
     statusText |-> NoStatus, statusClass |-> "",
     tab |-> NoTab, requested |-> FALSE, rejected |-> ""]

ChromeScheme == <<"c", "h", "r", "o", "m", "e", ":", "/", "/">>

\* String.prototype.startsWith
RECURSIVE StartsWith(_, _)
StartsWith(s, prefix) ==
    IF prefix = <<>> THEN TRUE
    ELSE s # <<>> /\ Head(s) = Head(prefix) /\ StartsWith(Tail(s), Tail(prefix))

\* if (!tab || !tab.id)
IsMissingTab(tab) == ~tab.exists \/ tab.id = 0

IsRestrictedNever(tab) == FALSE

\* if (tab.url && tab.url.startsWith("chrome://"))
IsRestricted(tab) ==
    tab.url.has /\ tab.url.value # <<>> /\ StartsWith(tab.url.value, ChromeScheme)

ClickStartEnabled(p) ==
    [p EXCEPT !.label = ScanningLabel, !.statusText = NoStatus, !.statusClass = "",
              !.pc = "querying", !.tab = NoTab, !.requested = FALSE, !.rejected = ""]

\* the handler up to the first await: disable the button, clear the status,
\* ask for the active tab
ClickStart(p) ==
    [p EXCEPT !.disabled = TRUE, !.label = ScanningLabel,
              !.statusText = NoStatus, !.statusClass = "",
              !.pc = "querying", !.tab = NoTab, !.requested = FALSE, !.rejected = ""]

\* the code after the try statement: re-enable the button
Reenable(p) == [p EXCEPT !.disabled = FALSE, !.label = RunAuditLabel, !.pc = "idle"]

\* the catch block, then the code after the try statement
Fail(p, message) ==
    Reenable([p EXCEPT !.statusText = ErrorText(message), !.statusClass = "error"])

\* the code after the awaited executeScript, then after the try statement
Succeed(p) ==
    Reenable([p EXCEPT !.statusText = SuccessText, !.statusClass = "success"])

\* the code between the two awaits, given the tab the query answered with
AfterQuery(p, tab) ==
    LET q == [p EXCEPT !.tab = tab]
    IN  IF IsMissingTab(tab) THEN Fail(q, NoTabMessage)
        ELSE IF IsRestricted(tab) THEN Fail(q, RestrictedMessage)
        ELSE [q EXCEPT !.requested = TRUE, !.pc = "injecting"]

WebUrl == <<"h", "t", "t", "p", "s", ":", "/", "/", "a", ".", "b">>
ChromeUrl == ChromeScheme \o <<"e", "x", "t">>
ChromeLikeUrl == <<"c", "h", "r", "o", "m", "e", ".", "c", "o", "m">>

\* what chrome.tabs.query can answer with as tabs[0]
TabChoices ==
    {NoTab} \cup {Tab(id, url) : id \in {0, 7},
                                 url \in {NoAttr, Attr(WebUrl), Attr(ChromeUrl),
                                          Attr(ChromeLikeUrl)}}

\* messages of errors the host rejects a call with
QueryRejections == {"Tabs cannot be queried right now"}
InjectRejections == {"Cannot access contents of the page", "Frame with ID 0 was removed"}

\* A click on the scan button; a disabled button dispatches no click
PopupClick ==
    /\ ~popup.disabled
    /\ scanCount < MaxScans
    /\ popup' = ClickStart(popup)
    /\ UNCHANGED <<doc, style, panels, styleEls, listeners, timers, scanCount, lastEvent>>

\* chrome.tabs.query resolves
QueryResolve ==
    /\ popup.pc = "querying"
    /\ \E tab \in TabChoices : popup' = AfterQuery(popup, tab)
    /\ UNCHANGED <<doc, style, panels, styleEls, listeners, timers, scanCount, lastEvent>>

\* chrome.tabs.query rejects
QueryReject ==
    /\ popup.pc = "querying"
    /\ \E message \in QueryRejections :
         popup' = Fail([popup EXCEPT !.rejected = message], message)
    /\ UNCHANGED <<doc, style, panels, styleEls, listeners, timers, scanCount, lastEvent>>

\* chrome.scripting.executeScript runs content.js in the tab and resolves
InjectResolve ==
    /\ popup.pc = "injecting"
    /\ Scan
    /\ popup' = Succeed(popup)

\* chrome.scripting.executeScript rejects: content.js does not run
InjectReject ==
    /\ popup.pc = "injecting"
    /\ \E message \in InjectRejections :
         popup' = Fail([popup EXCEPT !.rejected = message], message)
    /\ UNCHANGED <<doc, style, panels, styleEls, listeners, timers, scanCount, lastEvent>>

NextPopup ==
    \/ PopupClick
    \/ QueryResolve
    \/ QueryReject
    \/ InjectResolve
    \/ InjectReject
    \/ ClickClose /\ UNCHANGED popup

\* The host settles every call it was given: an awaited call does not stay
\* pending for ever.  InjectResolve is enabled exactly when InjectReject is
\* (PopupClick keeps scanCount below MaxScans), so weak fairness of the
\* rejecting step already excludes an injection that stays pending.
HostSettles == QueryResolve \/ QueryReject \/ InjectReject

----------------------------------------------------------------------------
(* Documents *)

Gray(v) == Rgb(v, v, v)
TransparentWhite == Rgba0(255, 255, 255)
Paragraph(parent, display, position, text, color, bg) ==
    Element("p", parent, NoAttr, <<>>, display, position, text, color, bg)
Division(parent, display, text, color, bg) ==
    Element("div", parent, NoAttr, <<>>, display, "static", text, color, bg)

PngSrc == <<"a", ".", "p", "n", "g">>
AuthoredStyle == [outline |-> "1px dashed blue", backgroundColor |-> Gray(240)]

\* a page on which two images lack alternative text (the first carries an
\* authored style attribute), and a page with no defect
DefectPage(s) ==
    <<HtmlElement, BodyElement(White),
      WithInline(Img(NoAttr, <<>>), s),
      Img(Attr(<<" ">>), PngSrc),
      Heading(1),
      Heading(2),
      Paragraph(Body, "block", "static", <<"a">>, Black, Transparent)>>

\* a page with one skipped heading level and one light-on-light paragraph
MixedPage ==
    <<HtmlElement, BodyElement(White),
      Img(Attr(<<"a">>), PngSrc),
      Heading(1),
      Heading(3),
      Paragraph(Body, "block", "static", <<"a">>, Gray(249), Transparent)>>

CleanPage ==
    <<HtmlElement, BodyElement(White),
      Img(Attr(<<"a">>), PngSrc),
      Heading(1),
      Heading(2),
      Paragraph(Body, "block", "static", <<"a">>, Black, Transparent)>>

LifecycleDocs == {DefectPage(AuthoredStyle), MixedPage, CleanPage}

InitWith(docs) ==
    /\ doc \in docs
    /\ style = [i \in 1..Len(doc) |-> doc[i].inline]
    /\ panels = <<>>
    /\ styleEls = <<>>
    /\ listeners = <<>>
    /\ timers = <<>>
    /\ scanCount = 0
    /\ lastEvent = [type |-> "none", key |-> "", entry |-> NoEntry,
                    highlighted |-> <<>>, mounted |-> 0, target |-> Null, threw |-> FALSE]
    /\ popup = PopupIdle

Init == InitWith(LifecycleDocs)

\* the events of the page; the popup is not involved
Next ==
    \/ Scan /\ UNCHANGED popup
    \/ ClickClose /\ UNCHANGED popup
    \/ ClickEntry /\ UNCHANGED popup
    \/ KeyDownOnEntry /\ UNCHANGED popup
    \/ KeyDownOnDocument /\ UNCHANGED popup
    \/ TimerFire /\ UNCHANGED popup

Spec == Init /\ [][Next]_vars

----------------------------------------------------------------------------
(* Specifications for the detectors: the page is drawn from a bounded set of
   documents, then scanned (and the report closed and the page re-scanned) *)

NextScan ==
    \/ Scan /\ UNCHANGED popup
    \/ ClickClose /\ UNCHANGED popup

SeqsUpTo(S, n) == UNION {[1..m -> S] : m \in 0..n}

\* -- images --
AltValues ==
    {NoAttr, Attr(<<>>), Attr(<<" ">>), Attr(<<"\t", " ">>), Attr(<<"a">>),
     Attr(<<" ", "a", " ">>)}

ImgChoices == {Img(alt, src) : alt \in AltValues, src \in {<<>>, PngSrc}}

AltDocs ==
    {<<HtmlElement, BodyElement(White)>> \o imgs : imgs \in SeqsUpTo(ImgChoices, MaxImgs)}

InitAlt == InitWith(AltDocs)

SpecAlt == InitAlt /\ [][NextScan]_vars

\* -- headings --
HeadingDocs ==
    {<<HtmlElement, BodyElement(White)>> \o [i \in 1..Len(ls) |-> Heading(ls[i])] :
        ls \in SeqsUpTo(1..6, MaxHeadings)}

InitHeadings == InitWith(HeadingDocs)

SpecHeadings == InitHeadings /\ [][NextScan]_vars

\* -- text on backgrounds: a block, and a paragraph inside or beside it --
Container == Body + 1

ContrastDoc(rootBg, bodyBg, divDisplay, divBg, parent, display, position, text, color, bg) ==
    <<[HtmlElement EXCEPT !.cssBg = rootBg],
      BodyElement(bodyBg),
      Division(Body, divDisplay, IF parent = Container THEN text ELSE <<>>, Gray(249), divBg),
      Paragraph(parent, display, position, text, color, bg)>>

ContrastDocs ==
    {ContrastDoc(rootBg, bodyBg, divDisplay, divBg, parent, display, position, text, color, bg) :
        rootBg \in {Transparent, Gray(188)},
        bodyBg \in {White, Gray(240), Transparent},
        divDisplay \in {"block", "none"},
        divBg \in {Transparent, TransparentWhite, Gray(253), Gray(188)},
        parent \in {Body, Container},
        display \in {"block", "none"},
        position \in {"static", "fixed"},
        text \in {<<>>, <<" ">>, <<"a">>},
        color \in {White, Gray(249), Gray(219), Gray(188)},
        bg \in {Transparent, TransparentWhite, Gray(253)}}

InitContrast == InitWith(ContrastDocs)

SpecContrast == InitContrast /\ [][NextScan]_vars

----------------------------------------------------------------------------
(* Lifecycle of the overlay and its Escape listener *)

Dismissal(e) == e.type = "close" \/ (e.type = "keydown" /\ e.key = "Escape")

\* C1: in every state with no overlay mounted, no handleEsc listener is
\* registered on document (the listener is deregistered on every dismissal
\* path: close button, Escape, replacement by a new scan).
C1_NoListenerWithoutOverlay == panels = <<>> => listeners = <<>>

\* C2: an engine invocation made while an overlay is mounted leaves exactly
\* one overlay and exactly one registered Escape listener.
C2_RescanLeavesOneOverlayOneListener ==
    (lastEvent.type = "scan" /\ lastEvent.mounted >= 1)
        => (Len(panels) = 1 /\ Len(listeners) = 1)

\* C3: the document never holds more than one overlay, and right after an
\* engine invocation the only overlay is the one that invocation built (a
\* prior overlay was removed first).
C3_AtMostOneOverlay ==
    /\ Len(panels) <= 1
    /\ lastEvent.type = "scan" => (Len(panels) = 1 /\ panels[1].id = scanCount)

C3_Witness ==
    /\ lastEvent.type = "scan"
    /\ lastEvent.mounted = 1
    /\ Len(panels) = 1
    /\ panels[1].id = 2

\* C4: once every pending restoration timer has fired, every element's
\* inline outline and background colour equal the values they had before the
\* first highlight.
C4_HighlightIsTransient ==
    timers = <<>> => \A i \in 1..Len(doc) : style[i] = doc[i].inline

\* C7: activating entry k of a category (click, or keydown of Enter or
\* Space) invokes the highlighter on the element of the k-th Finding of that
\* category and on no other element; any other key highlights nothing.
C7_EntryHighlightsOwnElement ==
    lastEvent.entry # NoEntry =>
        LET c == lastEvent.entry[1]
            k == lastEvent.entry[2]
            activated == lastEvent.type = "click" \/ IsActivationKey(lastEvent.key)
        IN  IF activated
            THEN /\ Len(panels) = 1
                 /\ LET el == panels[1].sections[c].issues[k].element
                    IN  /\ lastEvent.highlighted = <<el>>
                        /\ timers # <<>>
                        /\ timers[Len(timers)].el = el
                        /\ style[el] = [outline |-> HighlightOutline,
                                        backgroundColor |-> HighlightBg]
            ELSE lastEvent.highlighted = <<>>

\* the first of two entries of one category was activated by the keyboard
C7_Witness ==
    /\ lastEvent.type = "keydown"
    /\ lastEvent.key = " "
    /\ lastEvent.entry = <<1, 1>>
    /\ Len(panels) = 1
    /\ Len(panels[1].sections[1].entries) = 2
    /\ lastEvent.highlighted = <<panels[1].sections[1].issues[1].element>>

\* C8: a single Escape key press or a single click on the close control,
\* made while an overlay is mounted, leaves no overlay mounted.
C8_DismissalAlwaysWorks ==
    (lastEvent.mounted >= 1 /\ Dismissal(lastEvent)) => panels = <<>>

\* Escape dismisses the second overlay although the first overlay's listener
\* was left behind
C8_Witness ==
    /\ lastEvent.type = "keydown"
    /\ lastEvent.key = "Escape"
    /\ lastEvent.mounted = 1
    /\ scanCount = 2
    /\ listeners = <<2>>
    /\ panels = <<>>

----------------------------------------------------------------------------
(* The detectors *)

Increasing(issues) ==
    \A m, n \in 1..Len(issues) : m < n => issues[m].element < issues[n].element

ElementsOf(issues) == {issues[n].element : n \in 1..Len(issues)}

\* -- HeadingHierarchyDetector --
LevelOf(tag) == CHOOSE l \in 1..6 : <<"h1", "h2", "h3", "h4", "h5", "h6">>[l] = tag

HeadingNodes == {i \in 1..Len(doc) : doc[i].tag \in HeadingTags}

\* the heading immediately before heading i in document order (0: none)
PrecedingHeading(i) ==
    IF \E h \in HeadingNodes : h < i
    THEN CHOOSE h \in HeadingNodes : h < i /\ \A g \in HeadingNodes : g < i => g <= h
    ELSE 0

SkippedHeadings ==
    {i \in HeadingNodes :
        PrecedingHeading(i) # 0
        /\ LevelOf(doc[i].tag) > LevelOf(doc[PrecedingHeading(i)].tag) + 1}

HeadingReportIsExact(issues) ==
    /\ Increasing(issues)
    /\ ElementsOf(issues) = SkippedHeadings
    /\ \A n \in 1..Len(issues) :
         LET cur == LevelOf(doc[issues[n].element].tag)
             prev == LevelOf(doc[PrecedingHeading(issues[n].element)].tag)
         IN  /\ issues[n].current = <<"H", DigitChar(cur)>>
             /\ issues[n].previous = <<"H", DigitChar(prev)>>
             /\ cur > prev + 1
    /\ (\A i \in HeadingNodes :
           PrecedingHeading(i) # 0
               => LevelOf(doc[i].tag) <= LevelOf(doc[PrecedingHeading(i)].tag))
         => issues = <<>>

\* C5: the heading section of every report holds a Finding for heading i
\* exactly when a preceding heading exists and level[i] > level[i-1] + 1 (the
\* baseline being the immediately preceding heading, flagged or not), in
\* document order, each recording that pair of levels; a non-increasing
\* sequence yields none.
C5_HeadingFindingsExact ==
    \A j \in 1..Len(panels) : HeadingReportIsExact(panels[j].sections[2].issues)

\* H1, H3, H4: H3 is flagged and is the baseline for H4, which is not
C5_Witness ==
    /\ Len(doc) = 5
    /\ <<doc[3].tag, doc[4].tag, doc[5].tag>> = <<"h1", "h3", "h4">>
    /\ Len(panels) = 1
    /\ Len(panels[1].sections[2].issues) = 1
    /\ panels[1].sections[2].issues[1].element = 4

\* -- AltTextDetector --
IsBlank(v) == \A n \in 1..Len(v) : v[n] \in {" ", "\t", "\n"}

ImagesLackingAlt ==
    {i \in 1..Len(doc) : doc[i].tag = "img" /\ (~doc[i].alt.has \/ IsBlank(doc[i].alt.value))}

AltReportIsExact(issues) ==
    /\ Increasing(issues)
    /\ ElementsOf(issues) = ImagesLackingAlt
    /\ Len(issues) = Cardinality(ImagesLackingAlt)
    /\ \A n \in 1..Len(issues) :
         /\ issues[n].src # <<>>
         /\ issues[n].src =
              IF doc[issues[n].element].src = <<>> THEN NoSrc
              ELSE doc[issues[n].element].src

\* C6: the alt-text section of every report holds exactly one Finding per
\* image whose alt attribute is absent or blank, in document order, and none
\* for another image; the Finding of an image without src carries the
\* placeholder, never the empty string.
C6_AltFindingsExact ==
    \A j \in 1..Len(panels) : AltReportIsExact(panels[j].sections[1].issues)

\* a whitespace-only alt without src, next to an image with a proper alt
C6_Witness ==
    /\ Len(doc) = 4
    /\ doc[3].alt = Attr(<<" ", "a", " ">>)
    /\ doc[4].alt = Attr(<<"\t", " ">>)
    /\ doc[4].src = <<>>
    /\ Len(panels) = 1
    /\ panels[1].sections[1].issues = <<[element |-> 4, src |-> NoSrc]>>

\* -- BackgroundResolver --
IsFullyTransparent(bg) ==
    bg \in {Transparent, TransparentWhite, TransparentKeyword}

\* the chain from the element upward, the root excluded
RECURSIVE Chain(_)
Chain(i) ==
    IF i = Null \/ i = Root THEN <<>> ELSE <<i>> \o Chain(doc[i].parent)

ContractBackground(el) ==
    LET chain == Chain(el)
        solid == {n \in 1..Len(chain) :
                     ~IsFullyTransparent(ComputedBackground(doc, style, chain[n]))}
    IN  IF solid = {} THEN White
        ELSE ComputedBackground(doc, style,
                 chain[CHOOSE n \in solid : \A m \in solid : n <= m])

\* C10: getBackgroundColor returns the computed background of the first
\* element on the chain from the element upward, the root excluded, whose
\* background is not fully transparent, and opaque white when there is none.
C10_BackgroundResolverContract ==
    \A el \in 2..Len(doc) :
        getBackgroundColor(doc, style, el) = ContractBackground(el)

\* -- ContrastDetector --
ScannedForContrast == {i \in 1..Len(doc) : doc[i].tag \in ContrastTags}

ShouldBeFlagged(el) ==
    /\ HasLayoutBox(doc, el)
    /\ ~IsBlank(doc[el].text)
    /\ getLuminance(doc[el].color) > TextLumTenths * LumTenth
    /\ getLuminance(getBackgroundColor(doc, style, el)) > BgLumTenths * LumTenth

\* C9: the contrast section of every report holds a Finding for an element
\* of the scanned types exactly when the element has a layout box, its text
\* is not blank, its text luminance exceeds 0.7 and the luminance of its
\* resolved background exceeds 0.9; Findings are in document order.
C9_ContrastFindingsExact ==
    \A j \in 1..Len(panels) :
        LET issues == panels[j].sections[3].issues
        IN  /\ Increasing(issues)
            /\ ElementsOf(issues) = {el \in ScannedForContrast : ShouldBeFlagged(el)}

----------------------------------------------------------------------------
(* The report: totals and sections *)

MissingAltImg == Img(NoAttr, <<>>)
ProperImg == Img(Attr(<<"a">>), PngSrc)

\* pages with up to MaxImgs images (each with or without alternative text),
\* a first-level heading followed by a second- or third-level one, and a
\* paragraph in dark or light text on the white body
ReportDocs ==
    {<<HtmlElement, BodyElement(White)>> \o imgs
        \o <<Heading(1), Heading(l),
             Paragraph(Body, "block", "static", <<"a">>, c, Transparent)>> :
        imgs \in SeqsUpTo({MissingAltImg, ProperImg}, MaxImgs),
        l \in {2, 3},
        c \in {Black, Gray(249)}}

InitReport == InitWith(ReportDocs)

SpecReport == InitReport /\ [][NextScan]_vars

ContrastDefects == {el \in ScannedForContrast : ShouldBeFlagged(el)}

DefectCount(c) ==
    CASE c = 1 -> Cardinality(ImagesLackingAlt)
      [] c = 2 -> Cardinality(SkippedHeadings)
      [] c = 3 -> Cardinality(ContrastDefects)

SectionTitles == <<"Missing Alt Text", "Heading Hierarchy", "Contrast Warnings">>

ReportIsConsistent(p) ==
    /\ p.totalIssues = DefectCount(1) + DefectCount(2) + DefectCount(3)
    /\ p.totalIssues = Len(p.sections[1].issues) + Len(p.sections[2].issues)
                         + Len(p.sections[3].issues)
    /\ Len(p.sections) = 3
    /\ \A c \in 1..3 :
         LET sec == p.sections[c]
         IN  /\ sec.title = SectionTitles[c]
             /\ sec.pass <=> DefectCount(c) = 0
             /\ sec.passMsg <=> sec.pass
             /\ sec.advice <=> ~sec.pass
             /\ sec.count = DefectCount(c)
             /\ Len(sec.entries) = DefectCount(c)
             /\ Len(sec.entries) = Len(sec.issues)
    /\ (DefectCount(1) = 0 /\ DefectCount(2) = 0 /\ DefectCount(3) = 0)
         => (p.totalIssues = 0 /\ \A c \in 1..3 : p.sections[c].pass)
    /\ (DefectCount(1) = 1 /\ DefectCount(2) = 1 /\ DefectCount(3) = 1)
         => (p.totalIssues = 3 /\ \A c \in 1..3 : ~p.sections[c].pass)

\* C11: the total of every report is the sum of the three detectors'
\* Findings; the overlay has one section per category, passing exactly when
\* the category has no Finding and otherwise listing one entry per Finding;
\* no defect gives total 0 and three passing sections, one defect of each
\* category gives total 3 and three failing sections.
C11_ReportTotalsAndSections ==
    \A j \in 1..Len(panels) : ReportIsConsistent(panels[j])

\* one image without alt, H1 then H3, one light paragraph on white
C11_Witness ==
    /\ Len(panels) = 1
    /\ DefectCount(1) = 1 /\ DefectCount(2) = 1 /\ DefectCount(3) = 1
    /\ panels[1].totalIssues = 3
    /\ \A c \in 1..3 : ~panels[1].sections[c].pass /\ Len(panels[1].sections[c].entries) = 1

----------------------------------------------------------------------------
(* The injected style element *)

\* C17: the document never holds more than one #a11y-panel-styles element,
\* and whenever an overlay is mounted the style element injected with it is
\* present.
C17_OneStyleElement ==
    /\ Len(styleEls) <= 1
    /\ \A j \in 1..Len(panels) : \E n \in 1..Len(styleEls) : styleEls[n] = panels[j].id

\* a re-scan replaced the first overlay: the second overlay is mounted with
\* its own style element, and the first one's is gone
C17_Witness ==
    /\ scanCount = 2
    /\ Len(panels) = 1
    /\ panels[1].id = 2
    /\ styleEls = <<2>>
    /\ listeners = <<1, 2>>

----------------------------------------------------------------------------
(* Independence of scans *)

FreshReport ==
    BuildPanel(scanCount, checkAltText(doc), checkHeadings(doc),
               checkContrast(doc, [i \in 1..Len(doc) |-> doc[i].inline]))

\* C14: the Findings of an engine invocation are those of a scan of the same
\* page made with no previous overlay and no highlight awaiting restoration.
C14_ScanIndependentOfPriorScans ==
    lastEvent.type = "scan" =>
        \A c \in 1..3 :
            panels[Len(panels)].sections[c].issues = FreshReport.sections[c].issues

----------------------------------------------------------------------------
(* Colour parsing *)

\* computed colours that are not serialised as rgb()/rgba()
ColorFunction ==
    <<"c", "o", "l", "o", "r", "(", "s", "r", "g", "b", " ", "1", " ", "0", " ", "0", ")">>
Oklch ==
    <<"o", "k", "l", "c", "h", "(", "0", ".", "6", " ", "0", ".", "2", " ", "3", "0", ")">>

TextColors == {White, Black, Gray(249), ColorFunction}
BackgroundColors == {Transparent, White, Gray(188), ColorFunction, Oklch}

\* two paragraphs on a body, every colour drawn from the sets above
ColorDocs ==
    {<<HtmlElement, BodyElement(bodyBg),
       Paragraph(Body, "block", "static", <<"a">>, c1, b1),
       Paragraph(Body, "block", "static", <<"b">>, c2, b2)>> :
        bodyBg \in {White, Gray(188)},
        c1 \in TextColors, b1 \in BackgroundColors,
        c2 \in TextColors, b2 \in BackgroundColors}

InitColor == InitWith(ColorDocs)

SpecColor == InitColor /\ [][NextScan]_vars

ChannelValues == {0, 188, 249, 255}

RgbForms ==
    {Rgb(r, g, b) : r, g, b \in ChannelValues}
        \cup {Rgba0(r, g, b) : r, g, b \in ChannelValues}

IsRgbForm(c) == c \in RgbForms

AsWhite(c) == IF IsRgbForm(c) THEN c ELSE White

\* the page with every colour that is not of the rgb form replaced by white
Whitened(d) ==
    [i \in 1..Len(d) |-> [d[i] EXCEPT !.color = AsWhite(@), !.cssBg = AsWhite(@)]]

ColorsOf(d) == {d[i].color : i \in 1..Len(d)} \cup {d[i].cssBg : i \in 1..Len(d)}

\* C12: a colour string that is not of the form rgb(r,g,b[,a]) parses to the
\* channels, and so the luminance, of rgb(255, 255, 255); the scan completes
\* with an overlay mounted and reports every element as it would with white
\* in place of that colour; white has luminance 1 and black luminance 0.
C12_ColorParsingFailsSoft ==
    /\ \A c \in ColorsOf(doc) :
         ~IsRgbForm(c) => /\ parseRgb(c) = parseRgb(White)
                          /\ getLuminance(c) = getLuminance(White)
    /\ parseRgb(White) = <<255, 255, 255>>
    /\ getLuminance(White) = 10 * LumTenth
    /\ getLuminance(Black) = 0
    /\ lastEvent.type = "scan" => Len(panels) = 1
    /\ \A j \in 1..Len(panels) :
         ElementsOf(panels[j].sections[3].issues)
             = ElementsOf(checkContrast(Whitened(doc), style))

\* the first paragraph's text colour is not parsable and it is reported; the
\* second paragraph, scanned after it, is reported too
C12_Witness ==
    /\ doc[3].color = ColorFunction
    /\ doc[4].color = Gray(249)
    /\ doc[4].cssBg = Oklch
    /\ Len(panels) = 1
    /\ ElementsOf(panels[1].sections[3].issues) = {3, 4}

----------------------------------------------------------------------------
(* Removal of a highlighted element by the page *)

RECURSIVE IsWithin(_, _, _)
IsWithin(d, i, top) ==
    IF i = Null THEN FALSE
    ELSE i = top \/ IsWithin(d, d[i].parent, top)

\* element.remove(): the element and its descendants leave the document
Detach(d, top) ==
    [i \in 1..Len(d) |-> IF IsWithin(d, i, top) THEN [d[i] EXCEPT !.attached = FALSE]
                         ELSE d[i]]

\* The page removes an element whose highlight is awaiting restoration
RemoveElement ==
    \E n \in 1..Len(timers) :
        /\ doc[timers[n].el].attached
        /\ doc' = Detach(doc, timers[n].el)
        /\ lastEvent' = Event("remove", "", NoEntry, <<>>)
        /\ UNCHANGED <<style, panels, styleEls, listeners, timers, scanCount>>

NextDetach ==
    \/ Scan /\ UNCHANGED popup
    \/ ClickClose /\ UNCHANGED popup
    \/ ClickEntry /\ UNCHANGED popup
    \/ TimerFire /\ UNCHANGED popup
    \/ RemoveElement /\ UNCHANGED popup

InitDetach == InitWith({DefectPage(AuthoredStyle), MixedPage})

SpecDetach == InitDetach /\ [][NextDetach]_vars

\* C13: when the restoration timer of an element that has left the document
\* fires, the callback raises no error, and no attached element's style and
\* nothing of the document's structure changes.
C13_RestoreOfRemovedElementIsHarmless ==
    [][(TimerFire /\ ~doc[Head(timers).el].attached)
          => /\ ~lastEvent'.threw
             /\ doc' = doc
             /\ panels' = panels
             /\ styleEls' = styleEls
             /\ listeners' = listeners
             /\ \A i \in 1..Len(doc) : doc[i].attached => style'[i] = style[i]]_vars

\* the timer of a removed element has just fired and restored that
\* element's saved style
C13_Witness ==
    /\ lastEvent.type = "timeout"
    /\ lastEvent.target # Null
    /\ ~doc[lastEvent.target].attached
    /\ ~lastEvent.threw
    /\ style[lastEvent.target] = doc[lastEvent.target].inline

----------------------------------------------------------------------------
(* The popup *)

InitPopup == InitWith({DefectPage(AuthoredStyle), MixedPage, CleanPage})

SpecPopup == InitPopup /\ [][NextPopup]_vars

SpecPopupLive == SpecPopup /\ WF_vars(HostSettles)

HasNoActiveTab(tab) == ~tab.exists \/ tab.id = 0

HasChromeUrl(tab) ==
    /\ tab.url.has
    /\ Len(tab.url.value) >= Len(ChromeScheme)
    /\ SubSeq(tab.url.value, 1, Len(ChromeScheme)) = ChromeScheme

Handled == popup.pc = "idle" /\ popup.statusClass # ""

\* C15: with no active tab (or a tab without id), or a tab whose URL starts
\* with chrome://, executeScript is never requested; every failure (no tab,
\* restricted page, rejection by the host) ends in the error state with the
\* message of that cause; the success message is shown only after an
\* injection that resolved.
C15_PopupRejectsAndReports ==
    /\ (HasNoActiveTab(popup.tab) \/ HasChromeUrl(popup.tab)) => ~popup.requested
    /\ (Handled /\ popup.rejected = "" /\ HasNoActiveTab(popup.tab))
         => (popup.statusClass = "error" /\ popup.statusText = ErrorText(NoTabMessage))
    /\ (Handled /\ popup.rejected = "" /\ ~HasNoActiveTab(popup.tab) /\ HasChromeUrl(popup.tab))
         => (popup.statusClass = "error" /\ popup.statusText = ErrorText(RestrictedMessage))
    /\ (Handled /\ popup.rejected # "")
         => (popup.statusClass = "error" /\ popup.statusText = ErrorText(popup.rejected))
    /\ NoTabMessage # RestrictedMessage
    /\ \A m \in QueryRejections \cup InjectRejections : m \notin {NoTabMessage, RestrictedMessage}
    /\ (popup.statusClass = "success" \/ popup.statusText = SuccessText)
         => /\ popup.statusClass = "success" /\ popup.statusText = SuccessText
            /\ popup.requested /\ popup.rejected = "" /\ popup.pc = "idle"
            /\ scanCount > 0 /\ styleEls # <<>>

\* a chrome:// tab was answered: error shown, no injection requested
C15_Witness ==
    /\ popup.pc = "idle"
    /\ popup.tab = Tab(7, Attr(ChromeUrl))
    /\ ~popup.requested
    /\ popup.statusClass = "error"
    /\ popup.statusText = ErrorText(RestrictedMessage)

\* C16: while a click is being handled the button is disabled, so no second
\* click can start an injection; and every handling ends with the button
\* enabled again and labelled "Run Audit".
C16_ButtonDisabledWhileInFlight ==
    /\ [](popup.pc # "idle" => (popup.disabled /\ ~ENABLED PopupClick))
    /\ [](popup.pc = "idle" => (~popup.disabled /\ popup.label = RunAuditLabel))
    /\ [](popup.pc # "idle"
            => <>(popup.pc = "idle" /\ ~popup.disabled /\ popup.label = RunAuditLabel))

\* an injection is pending with the button disabled
C16_Witness ==
    /\ popup.pc = "injecting"
    /\ popup.requested
    /\ popup.disabled
    /\ popup.label = ScanningLabel

====
